---- MODULE Spec2Model ----
(***************************************************************************)
(* The task/worker assignment engine of conductor-agent: Task, Worker,     *)
(* Organization, the Conductor's planning rounds and completion handling,  *)
(* and the boundary operations of backend/app/main.py that drive them.     *)
(*                                                                         *)
(* A worker is identified by its position in Organization.workers (names   *)
(* are not unique by construction), a task by the order of its creation.   *)
(* 0 stands for None in assigned_worker.                                   *)
(***************************************************************************)
EXTENDS Integers, Sequences, FiniteSets, TLC

\* ------------------------------------------------------------ bounds
MaxTasks == 2        \* Task objects ever constructed
MaxWorkers == 2      \* Worker objects ever constructed
MaxReassign == 1     \* direct assignments that take a task from its worker
MaxDeps == 2         \* length of a request's dependency_ids
MaxRefs == 2         \* task references in a planning response
MaxClock == 6        \* hours the clock runs for
MaxRounds == 2       \* batch planning rounds served, possibly at the same time

WorkerNames == {"Alice", "Bob"}
TaskIds == 1..MaxTasks
WorkerIds == 1..(MaxWorkers + 1)
RoundIds == 1..MaxRounds

VARIABLES
    workers,            \* Organization.workers: sequence of worker names
    tasks,              \* Organization.tasks: sequence of task ids
    completed_tasks,    \* Organization.completed_tasks
    registered,         \* ghost: every task ever passed to add_task
    assigned_worker,    \* Task.assigned_worker (worker id, 0 = None)
    status,             \* Task.status
    dependencies,       \* Task.dependencies (sequence of task ids)
    completed_time,     \* Task.completed_time: 0 for None, else the number of
                        \* times it has been written (each write stores a new
                        \* datetime.now())
    assignment_time,    \* Task.assignment_time: the hour read from the clock
                        \* when the task was assigned, -1 for None
    priority,           \* Task.priority
    deadline,           \* Task.deadline: <<>> for None, else <<h>> for the hour
                        \* h of the clock at which the task is due
    required_skills,    \* Task.required_skills
    skills,             \* Worker.skills
    assigned_tasks,     \* Worker.assigned_tasks
    worker_completed,   \* Worker.completed_tasks
    tasks_completed,    \* Worker.performance_metrics["tasks_completed"]
    avg_completion_time,\* Worker.performance_metrics["avg_completion_time"],
                        \* as a fraction in lowest terms
    hours,              \* ghost: for each entry of Worker.completed_tasks, the
                        \* hours between its assignment and its completion
    now,                \* datetime.now(), in whole hours
    task_history,       \* Worker.task_history: the number of entries per action
                        \* (the log is append-only and never read by the code)
    rounds,             \* the batch planning rounds in flight, one record per
                        \* request being served: where the round stands and
                        \* its local variables
    last                \* ghost: the operation just run, its inputs and its
                        \* result, until the result is handed to the caller

vars == <<workers, tasks, completed_tasks, registered, assigned_worker, status,
          dependencies, completed_time, priority, deadline, required_skills, skills,
          assigned_tasks, worker_completed, tasks_completed, task_history,
          rounds, assignment_time, avg_completion_time, hours, now, last>>

orgVars == <<workers, tasks, completed_tasks, registered>>
attrVars == <<priority, deadline, required_skills, skills>>
taskVars == <<assigned_worker, status, dependencies, completed_time, assignment_time>>
workerVars == <<assigned_tasks, worker_completed, tasks_completed, task_history,
                avg_completion_time, hours>>
requestVars == <<rounds>>
clockVars == <<now>>

\* ------------------------------------------------------------ lists
Range(s) == {s[i] : i \in DOMAIN s}

\* x in list
In(x, s) == \E i \in DOMAIN s : s[i] = x

\* list.index(x): the first position of x (1-based here), 0 when absent
IndexOf(x, s) == IF In(x, s) THEN CHOOSE i \in DOMAIN s : s[i] = x /\ \A j \in 1..(i-1) : s[j] # x
                 ELSE 0

\* list.remove(x): drops the first occurrence only
RemoveFirst(x, s) ==
    LET i == IndexOf(x, s)
    IN  IF i = 0 THEN s ELSE SubSeq(s, 1, i-1) \o SubSeq(s, i+1, Len(s))

Count(x, s) == Cardinality({i \in DOMAIN s : s[i] = x})

\* next(w for w in workers if w.name == name, None)
FindWorker(name) == IF In(name, workers) THEN IndexOf(name, workers) ELSE 0

\* ------------------------------------------------------------ Task
\* Task.is_blocked, for a dependency list under a status map
IsBlocked(st, deps) == \E i \in DOMAIN deps : st[deps[i]] # "completed"

\* A rule that takes an unblocked task to pending first, whoever holds it
UpdateStatusTwoStep(st, deps, aw, t) ==
    IF st[t] = "completed" THEN "completed"
    ELSE IF IsBlocked(st, deps[t]) THEN "blocked"
    ELSE IF st[t] = "blocked" THEN "pending"
    ELSE IF aw[t] # 0 THEN "in_progress"
    ELSE "pending"

\* Task.update_status: the status it leaves in task t
UpdateStatus(st, deps, aw, t) ==
    IF st[t] = "completed" THEN "completed"
    ELSE IF IsBlocked(st, deps[t]) THEN "blocked"
    ELSE IF aw[t] # 0 THEN "in_progress"
    ELSE "pending"

\* ------------------------------------------------------------ Init
NoLast == [op |-> "none", task |-> 0, name |-> "", dep_ids |-> <<>>,
           response |-> <<>>, outcome |-> "ok", ret |-> <<>>, worker |-> 0,
           snapshot |-> <<>>]

\* A request thread that is serving no planning round
NoRound == [pc |-> "idle", snapshot |-> <<>>, failed |-> FALSE,
            response |-> <<>>, plan |-> <<>>, done |-> <<>>, ret |-> <<>>]

Init ==
    /\ rounds = [r \in RoundIds |-> NoRound]
    /\ workers = <<>>
    /\ tasks = <<>>
    /\ completed_tasks = <<>>
    /\ registered = {}
    /\ assigned_worker = [t \in TaskIds |-> 0]
    /\ status = [t \in TaskIds |-> "pending"]
    /\ dependencies = [t \in TaskIds |-> <<>>]
    /\ completed_time = [t \in TaskIds |-> 0]
    /\ assignment_time = [t \in TaskIds |-> IF assigned_worker[t] = 0 THEN -1 ELSE 0]
    /\ avg_completion_time = [w \in WorkerIds |-> [num |-> 0, den |-> 1]]
    /\ hours = [w \in WorkerIds |-> <<>>]
    /\ now = 0
    /\ priority = [t \in TaskIds |-> 0]
    /\ required_skills = [t \in TaskIds |-> {}]
    /\ deadline = [t \in TaskIds |-> <<>>]
    /\ skills = [w \in WorkerIds |-> {}]
    /\ assigned_tasks = [w \in WorkerIds |-> <<>>]
    /\ worker_completed = [w \in WorkerIds |-> <<>>]
    /\ tasks_completed = [w \in WorkerIds |-> 0]
    /\ task_history = [w \in WorkerIds |-> [assigned |-> 0, completed |-> 0]]
    /\ last = NoLast

\* ------------------------------------------------------------ Worker
\* The mutable fields of tasks and workers, threaded through an operation
Heap == [aw |-> assigned_worker, st |-> status, deps |-> dependencies,
         ct |-> completed_time, at |-> assigned_tasks, wc |-> worker_completed,
         tc |-> tasks_completed, hist |-> task_history,
         atime |-> assignment_time, avg |-> avg_completion_time, hrs |-> hours]

\* Fractions in lowest terms, for numerator n >= 0 and denominator d > 0
RECURSIVE GCD(_, _)
GCD(a, b) == IF b = 0 THEN a ELSE GCD(b, a % b)
Fraction(n, d) == [num |-> n \div GCD(n, d), den |-> d \div GCD(n, d)]

\* A decayed average: the latest task weighs a quarter, whatever the count
UpdatedAverageDecayed(avg, count, d) ==
    IF count = 0 THEN Fraction(d, 1)
    ELSE Fraction(3 * avg.num + d * avg.den, 4 * avg.den)

\* Worker._update_performance_metrics: the new avg_completion_time, from
\* the old one, the old tasks_completed and the hours d the task took:
\* (avg * count + d) / (count + 1)
UpdatedAverage(avg, count, d) ==
    Fraction(avg.num * count + d * avg.den, avg.den * (count + 1))

\* An assignment that sets the task's worker and forgets the worker's list
AssignTaskNoAppend(h, w, t) ==
    [h EXCEPT !.aw[t] = w,
              !.atime[t] = now,
              !.hist[w].assigned = @ + 1]

\* Worker.assign_task(task) on worker w: no check of the task's current owner
AssignTask(h, w, t) ==
    [h EXCEPT !.at[w] = Append(@, t),
              !.aw[t] = w,
              !.atime[t] = now,
              !.hist[w].assigned = @ + 1]

\* Worker.complete_task(task) on worker w
CompleteTask(h, w, t) ==
    IF In(t, h.at[w])
    THEN [h EXCEPT !.at[w] = RemoveFirst(t, @),
                   !.wc[w] = Append(@, t),
                   !.ct[t] = @ + 1,
                   !.st[t] = "completed",
                   !.hist[w].completed = @ + 1,
                   !.tc[w] = @ + 1,
                   !.avg[w] = UpdatedAverage(@, h.tc[w], now - h.atime[t]),
                   !.hrs[w] = Append(@, now - h.atime[t])]
    ELSE h

SetHeap(h) ==
    /\ assigned_worker' = h.aw
    /\ status' = h.st
    /\ dependencies' = h.deps
    /\ completed_time' = h.ct
    /\ assigned_tasks' = h.at
    /\ worker_completed' = h.wc
    /\ tasks_completed' = h.tc
    /\ task_history' = h.hist
    /\ assignment_time' = h.atime
    /\ avg_completion_time' = h.avg
    /\ hours' = h.hrs

\* Task.update_status() called on task t by a user of the engine
TaskUpdateStatus(t) ==
    /\ t \in registered
    /\ status' = [status EXCEPT ![t] =
                      UpdateStatus(status, dependencies, assigned_worker, t)]
    /\ last' = [NoLast EXCEPT !.op = "update_status", !.task = t]
    /\ UNCHANGED <<requestVars, clockVars, orgVars, attrVars, workerVars, assigned_worker, assignment_time, dependencies,
                   completed_time>>

\* ------------------------------------------------------------ Organization
\* Organization.add_worker, through the boundary's create_worker
CreateWorker(name, sk) ==
    /\ Len(workers) < Cardinality(WorkerIds)
    /\ workers' = Append(workers, name)
    /\ skills' = [skills EXCEPT ![Len(workers) + 1] = sk]
    /\ last' = [NoLast EXCEPT !.op = "create_worker", !.name = name,
                              !.worker = Len(workers) + 1]
    /\ UNCHANGED <<requestVars, clockVars, tasks, completed_tasks, registered, taskVars, priority,
                   deadline, required_skills, workerVars>>

\* The dependency list the boundary builds from dependency_ids (0-based
\* positions in Organization.tasks): ids out of range are dropped
RECURSIVE ResolveDeps(_)
ResolveDeps(ids) ==
    IF ids = <<>> THEN <<>>
    ELSE LET rest == ResolveDeps(Tail(ids))
         IN  IF 0 <= Head(ids) /\ Head(ids) < Len(tasks)
             THEN <<tasks[Head(ids) + 1]>> \o rest
             ELSE rest

DepIdSeqs == UNION {[1..n -> 0..(MaxTasks - 1)] : n \in 0..MaxDeps}

\* The id of the Task object the next Task(...) call constructs
NewTask == Cardinality(registered) + 1

\* The boundary's create_task: Task(...) then Organization.add_task(task)
CreateTask(dep_ids, prio, req) ==
    /\ Cardinality(registered) < MaxTasks
    /\ LET t == NewTask
       IN  /\ tasks' = Append(tasks, t)
           /\ registered' = registered \cup {t}
           /\ dependencies' = [dependencies EXCEPT ![t] = ResolveDeps(dep_ids)]
           /\ priority' = [priority EXCEPT ![t] = prio]
           /\ required_skills' = [required_skills EXCEPT ![t] = req]
           /\ deadline' = [deadline EXCEPT ![t] = <<>>]
           /\ last' = [NoLast EXCEPT !.op = "create_task", !.task = t,
                                     !.dep_ids = dep_ids]
    /\ UNCHANGED <<requestVars, clockVars, workers, completed_tasks, assigned_worker, status, completed_time, assignment_time,
                   skills, workerVars>>

\* ------------------------------------------------------------ auto-assignment
\* Worker.get_workload times 10: (sum of priorities) * (number of tasks)
RECURSIVE SumPriority(_)
SumPriority(ts) == IF ts = <<>> THEN 0 ELSE priority[Head(ts)] + SumPriority(Tail(ts))

\* A workload that adds the priorities up and ignores the number of tasks
Workload10Linear(w) == SumPriority(assigned_tasks[w])

Workload10(w) == SumPriority(assigned_tasks[w]) * Len(assigned_tasks[w])

\* A bonus whose first step is the last day before the deadline: a deadline
\* that has passed earns nothing more than one a day ahead
DeadlineBonusNoOverdue(dl, at) ==
    IF dl = <<>> THEN 0
    ELSE LET time_left == dl[1] - at
         IN  IF time_left < 24 THEN 5
             ELSE IF time_left < 72 THEN 3
             ELSE IF time_left < 168 THEN 1
             ELSE 0

\* The amount Task.urgency_score adds for a deadline dl when read at hour at
DeadlineBonus(dl, at) ==
    IF dl = <<>> THEN 0
    ELSE LET time_left == dl[1] - at
         IN  IF time_left <= 0 THEN 10
             ELSE IF time_left < 24 THEN 5
             ELSE IF time_left < 72 THEN 3
             ELSE IF time_left < 168 THEN 1
             ELSE 0

\* Task.urgency_score of a task of priority prio and deadline dl, at hour at
UrgencyScoreAt(prio, dl, at) == prio + DeadlineBonus(dl, at)

\* Task.urgency_score of a task without deadline
UrgencyScore(prio) == UrgencyScoreAt(prio, <<>>, now)

\* Twice the skill_boost: 1.5 when a required skill is shared, or none is
\* required, else 1.0
SkillBoost2(w, req) == IF req = {} \/ (req \cap skills[w]) # {} THEN 3 ELSE 2

\* score = 10/(10 + Workload10) * urgency * boost, as numerator over denominator
ScoreNum(w, prio, req) == 10 * UrgencyScore(prio) * SkillBoost2(w, req)
ScoreDen(w) == 2 * (10 + Workload10(w))

\* score(a) > score(b)
Better(a, b, prio, req) ==
    ScoreNum(a, prio, req) * ScoreDen(b) > ScoreNum(b, prio, req) * ScoreDen(a)

\* candidates = set(self.workers)
Candidates == 1..Len(workers)

\* A choice that takes any candidate, whatever its score
BestWorkersAny(prio, req) == Candidates

\* The workers _auto_assign_task may end with: it walks set(self.workers),
\* whose order is not the registration order, keeping the first of the
\* greatest score it meets
BestWorkers(prio, req) ==
    {w \in Candidates : \A v \in Candidates : ~Better(v, w, prio, req)}

\* best_worker after the loop (0 = None): every score is above the initial
\* best_score of -1, so only an empty candidate set leaves None
BestWorkerChoices(prio, req) ==
    IF Candidates = {} THEN {0} ELSE BestWorkers(prio, req)

\* An ending that hands the task to the first Worker object when no worker
\* was chosen
AutoAssignEndFirstSlot(h, w, t) ==
    LET h1 == AssignTask(h, IF w = 0 THEN 1 ELSE w, t)
    IN  [h1 EXCEPT !.st[t] = UpdateStatus(h1.st, h1.deps, h1.aw, t)]

\* The end of _auto_assign_task: assign and recompute the status when a
\* worker was chosen, else leave everything as it is
AutoAssignEnd(h, w, t) ==
    IF w = 0 THEN h
    ELSE LET h1 == AssignTask(h, w, t)
         IN  [h1 EXCEPT !.st[t] = UpdateStatus(h1.st, h1.deps, h1.aw, t)]

\* Organization.add_task(task, auto_assign=True); last.worker is what
\* _auto_assign_task returns
AddTaskAuto(dep_ids, prio, req) ==
    /\ Cardinality(registered) < MaxTasks
    /\ LET t == NewTask
           h0 == [Heap EXCEPT !.deps[t] = ResolveDeps(dep_ids)]
       IN  /\ tasks' = Append(tasks, t)
           /\ registered' = registered \cup {t}
           /\ priority' = [priority EXCEPT ![t] = prio]
           /\ required_skills' = [required_skills EXCEPT ![t] = req]
           /\ deadline' = [deadline EXCEPT ![t] = <<>>]
           /\ UNCHANGED <<requestVars, clockVars, workers, completed_tasks, skills>>
           /\ \E w \in BestWorkerChoices(prio, req) :
                 /\ SetHeap(AutoAssignEnd(h0, w, t))
                 /\ last' = [NoLast EXCEPT !.op = "add_task_auto",
                                           !.task = t, !.worker = w]

\* ------------------------------------------------------------ direct assignment
RECURSIVE SumOver(_, _)
SumOver(f, n) == IF n = 0 THEN 0 ELSE f[n] + SumOver(f, n - 1)

\* How many times a task has been taken from a worker's assigned_tasks
\* without completing: "assigned" log entries minus tasks held or completed
Unassignments ==
    SumOver([w \in WorkerIds |-> task_history[w].assigned
                                  - Len(assigned_tasks[w]) - Len(worker_completed[w])],
            Cardinality(WorkerIds))

\* The boundary's assign_task(task_id, worker_name); task_id is 0-based.
\* maxR bounds the direct assignments that take a task from its worker
DirectAssignUpTo(task_id, name, maxR) ==
    IF ~(0 <= task_id /\ task_id < Len(tasks))
    THEN /\ last' = [NoLast EXCEPT !.op = "direct_assign", !.name = name,
                                   !.outcome = "not_found"]
         /\ UNCHANGED <<requestVars, clockVars, orgVars, taskVars, attrVars, workerVars>>
    ELSE LET t == tasks[task_id + 1]
             old == assigned_worker[t]
             L == [NoLast EXCEPT !.op = "direct_assign", !.task = t, !.name = name]
         IN  IF old # 0 /\ workers[old] = name
             THEN /\ last' = [L EXCEPT !.worker = old]
                  /\ UNCHANGED <<requestVars, clockVars, orgVars, taskVars, attrVars, workerVars>>
             ELSE IF old # 0 /\ ~In(t, assigned_tasks[old])
             THEN \* list.remove raises ValueError before anything is written
                  /\ last' = [L EXCEPT !.outcome = "raised"]
                  /\ UNCHANGED <<requestVars, clockVars, orgVars, taskVars, attrVars, workerVars>>
             ELSE /\ old # 0 => Unassignments < maxR
                  /\ LET h0 == IF old # 0
                                 THEN [Heap EXCEPT !.at[old] = RemoveFirst(t, @), !.aw[t] = 0,
                                                   !.atime[t] = -1]
                                 ELSE Heap
                         w == FindWorker(name)
                     IN  IF w # 0
                         THEN /\ SetHeap(AssignTask(h0, w, t))
                              /\ last' = [L EXCEPT !.worker = w]
                              /\ UNCHANGED <<requestVars, clockVars, orgVars, attrVars>>
                         ELSE /\ SetHeap(h0)
                              /\ last' = [L EXCEPT !.outcome = "not_found"]
                              /\ UNCHANGED <<requestVars, clockVars, orgVars, attrVars>>

DirectAssign(task_id, name) == DirectAssignUpTo(task_id, name, MaxReassign)

\* ------------------------------------------------------------ completion
\* The loop of handle_task_completion over the remaining tasks: the
\* completed task d leaves each dependency list once, and the dependant's
\* status is recomputed
RECURSIVE Unblock(_, _, _)
Unblock(h, d, ts) ==
    IF ts = <<>> THEN h
    ELSE LET u == Head(ts)
             h1 == IF In(d, h.deps[u])
                   THEN LET hd == [h EXCEPT !.deps[u] = RemoveFirst(d, @)]
                            s1 == UpdateStatus(hd.st, hd.deps, hd.aw, u)
                            s2 == IF ~IsBlocked(hd.st, hd.deps[u]) /\ s1 = "blocked"
                                  THEN "pending" ELSE s1
                        IN  [hd EXCEPT !.st[u] = s2]
                   ELSE h
         IN  Unblock(h1, d, Tail(ts))

\* A completion that leaves the archive as it was
ArchivedNowhere(moved, t) == completed_tasks

\* "Move task to completed list": what completed_tasks becomes
Archived(moved, t) == IF moved THEN Append(completed_tasks, t) ELSE completed_tasks

\* A refusal that archives the task all the same
RefuseAndArchive(t) ==
    /\ last' = [NoLast EXCEPT !.op = "complete", !.task = t,
                              !.outcome = "bad_request"]
    /\ tasks' = IF In(t, tasks) THEN RemoveFirst(t, tasks) ELSE tasks
    /\ completed_tasks' = IF In(t, tasks) THEN Append(completed_tasks, t)
                          ELSE completed_tasks
    /\ UNCHANGED <<requestVars, clockVars, workers, registered, taskVars, attrVars, workerVars>>

\* A refusal that marks the task completed all the same
RefuseButMark(t) ==
    /\ last' = [NoLast EXCEPT !.op = "complete", !.task = t,
                              !.outcome = "bad_request"]
    /\ status' = [status EXCEPT ![t] = "completed"]
    /\ UNCHANGED <<requestVars, clockVars, orgVars, attrVars, workerVars, assigned_worker, assignment_time, dependencies,
                   completed_time>>

\* The else branch of handle_task_completion: a warning, and False
RefuseCompletion(t) ==
    /\ last' = [NoLast EXCEPT !.op = "complete", !.task = t,
                              !.outcome = "bad_request"]
    /\ UNCHANGED <<requestVars, clockVars, orgVars, taskVars, attrVars, workerVars>>

\* Conductor.handle_task_completion(task)
HandleTaskCompletion(t) ==
    /\ t \in registered
    /\ IF assigned_worker[t] # 0
       THEN LET h1 == CompleteTask(Heap, assigned_worker[t], t)
                moved == In(t, tasks)
                ts == IF moved THEN RemoveFirst(t, tasks) ELSE tasks
            IN  /\ tasks' = ts
                /\ completed_tasks' = Archived(moved, t)
                /\ SetHeap(Unblock(h1, t, ts))
                /\ last' = [NoLast EXCEPT !.op = "complete", !.task = t,
                                          !.worker = assigned_worker[t]]
                /\ UNCHANGED <<requestVars, clockVars, workers, registered, attrVars>>
       ELSE RefuseCompletion(t)

\* ------------------------------------------------------------ response text
(***************************************************************************)
(* A response is the sequence of its lines (text.split("\n"), never        *)
(* empty).  A line is                                                      *)
(*   kind "marker": the literal ASSIGNMENTS: on a line of its own;         *)
(*   kind "entry":  name ":" ref "," ref ...  (a line holding a colon);    *)
(*   kind "plain":  the text name, holding no colon ("" is a blank line).  *)
(* A reference is word, then "#" when hash, then the characters num:       *)
(* "Task 1" is [word |-> "Task", hash |-> FALSE, num |-> <<"1">>].         *)
(***************************************************************************)
Digits == <<"0", "1", "2", "3", "4", "5", "6", "7", "8", "9">>

IsDigit(c) == \E i \in DOMAIN Digits : Digits[i] = c
DigitVal(c) == (CHOOSE i \in DOMAIN Digits : Digits[i] = c) - 1

RECURSIVE DigitsVal(_, _)
DigitsVal(cs, acc) ==
    IF cs = <<>> THEN acc ELSE DigitsVal(Tail(cs), 10 * acc + DigitVal(Head(cs)))

\* int(text): an optional sign and at least one digit, else ValueError
ParseInt(cs) ==
    LET signed == cs # <<>> /\ Head(cs) \in {"-", "+"}
        body == IF signed THEN Tail(cs) ELSE cs
    IN  IF body # <<>> /\ \A i \in DOMAIN body : IsDigit(body[i])
        THEN [ok |-> TRUE,
              val |-> IF signed /\ Head(cs) = "-" THEN 0 - DigitsVal(body, 0)
                      ELSE DigitsVal(body, 0)]
        ELSE [ok |-> FALSE, val |-> 0]

\* "Task" in task_ref or "task" in task_ref.lower()
MentionsTask(ref) == ref.word \in {"Task", "task", "TASK"}

\* task_ref.lower().replace("task", "").replace("#", "").strip()
Cleaned(ref) == ref.num

\* str.strip() on the name texts the responses use
StripName(n) == IF n = " Alice " THEN "Alice" ELSE n

Marker == [kind |-> "marker", name |-> "", refs |-> <<>>]
Plain(text) == [kind |-> "plain", name |-> text, refs |-> <<>>]
Entry(n, rs) == [kind |-> "entry", name |-> n, refs |-> rs]

\* "ASSIGNMENTS:" in response_text
HasMarker(resp) == \E i \in DOMAIN resp : resp[i].kind = "marker"

\* response_text.split("ASSIGNMENTS:")[1]: the lines between the first
\* marker and the next one (or the end)
Section(resp) ==
    LET first == CHOOSE i \in DOMAIN resp :
                    resp[i].kind = "marker" /\ \A j \in 1..(i-1) : resp[j].kind # "marker"
        later == {i \in DOMAIN resp : i > first /\ resp[i].kind = "marker"}
        stop == IF later = {} THEN Len(resp) + 1
                ELSE CHOOSE i \in later : \A j \in later : i <= j
    IN  SubSeq(resp, first + 1, stop - 1)

\* str.splitlines(): a final empty piece is no line
SplitLines(resp) ==
    IF resp[Len(resp)] = Plain("") THEN SubSeq(resp, 1, Len(resp) - 1) ELSE resp

\* ------------------------------------------------------------ batch parsing
\* The in-range test of _parse_assignment_response
InRange(n) == 1 <= n /\ n <= Len(tasks)

\* A malformed reference ends the line: the references after it are lost
RECURSIVE ResolveRefsStop(_)
ResolveRefsStop(refs) ==
    IF refs = <<>> THEN <<>>
    ELSE LET ref == Head(refs)
             n == ParseInt(Cleaned(ref))
         IN  IF MentionsTask(ref) /\ n.ok /\ InRange(n.val)
             THEN <<tasks[n.val]>> \o ResolveRefsStop(Tail(refs))
             ELSE <<>>

\* References read as 0-based positions
RECURSIVE ResolveRefsZeroBased(_)
ResolveRefsZeroBased(refs) ==
    IF refs = <<>> THEN <<>>
    ELSE LET ref == Head(refs)
             n == ParseInt(Cleaned(ref))
             rest == ResolveRefsZeroBased(Tail(refs))
         IN  IF MentionsTask(ref) /\ n.ok /\ 0 <= n.val /\ n.val < Len(tasks)
             THEN <<tasks[n.val + 1]>> \o rest
             ELSE rest

\* The tasks one entry's references resolve to, in the order referenced
RECURSIVE ResolveRefs(_)
ResolveRefs(refs) ==
    IF refs = <<>> THEN <<>>
    ELSE LET ref == Head(refs)
             n == ParseInt(Cleaned(ref))
             rest == ResolveRefs(Tail(refs))
         IN  IF MentionsTask(ref) /\ n.ok /\ InRange(n.val)
             THEN <<tasks[n.val]>> \o rest
             ELSE rest

\* assignments[worker_name] = task_assignments on an insertion-ordered dict
DictPut(plan, n, ts) ==
    IF \E i \in DOMAIN plan : plan[i].name = n
    THEN [i \in DOMAIN plan |-> IF plan[i].name = n THEN [name |-> n, tasks |-> ts]
                                ELSE plan[i]]
    ELSE Append(plan, [name |-> n, tasks |-> ts])

RECURSIVE ParseLines(_, _)
ParseLines(lines, plan) ==
    IF lines = <<>> THEN plan
    ELSE LET l == Head(lines)
             n == StripName(l.name)
         IN  IF l.kind = "entry" /\ FindWorker(n) # 0
             THEN ParseLines(Tail(lines), DictPut(plan, n, ResolveRefs(l.refs)))
             ELSE ParseLines(Tail(lines), plan)

\* A parser that reads every line of the response, marker or no marker
ParseWholeText(resp) == ParseLines(resp, <<>>)

\* Conductor._parse_assignment_response
ParseAssignmentResponse(resp) ==
    IF HasMarker(resp) THEN ParseLines(Section(resp), <<>>) ELSE <<>>

\* ------------------------------------------------------------ batch planning round
\* A round that takes every planned task, whoever holds it
AvailableAlways(h, t) == TRUE

\* "Double-check task is available for assignment"
Available(h, t) == h.aw[t] = 0

\* A round that reports every worker of the plan, applied tasks or none
RecordAlways(ret, name, done) == DictPut(ret, name, done)

\* "Record only successful assignments"
Record(ret, name, done) == IF done # <<>> THEN DictPut(ret, name, done) ELSE ret

\* The inner loop of generate_task_assignments for one worker: a task is
\* assigned only if it has no worker when its turn comes
RECURSIVE ApplyTasks(_, _, _, _)
ApplyTasks(h, w, ts, done) ==
    IF ts = <<>> THEN [h |-> h, done |-> done]
    ELSE LET t == Head(ts)
         IN  IF Available(h, t)
             THEN LET h1 == AssignTask(h, w, t)
                      h2 == [h1 EXCEPT !.st[t] = UpdateStatus(h1.st, h1.deps, h1.aw, t)]
                  IN  ApplyTasks(h2, w, Tail(ts), Append(done, t))
             ELSE ApplyTasks(h, w, Tail(ts), done)

RECURSIVE ApplyPlan(_, _, _)
ApplyPlan(h, plan, ret) ==
    IF plan = <<>> THEN [h |-> h, ret |-> ret]
    ELSE LET e == Head(plan)
             w == FindWorker(e.name)
         IN  IF w # 0
             THEN LET r == ApplyTasks(h, w, e.tasks, <<>>)
                  IN  ApplyPlan(r.h, Tail(plan), Record(ret, e.name, r.done))
             ELSE ApplyPlan(h, Tail(plan), ret)

\* Organization.get_tasks_txt: the tasks of Organization.tasks without worker,
\* then those with one, each group in the order of Organization.tasks
IsUnassigned(t) == assigned_worker[t] = 0
IsAssigned(t) == assigned_worker[t] # 0
UnassignedTasks == SelectSeq(tasks, IsUnassigned)
AssignedTasks == SelectSeq(tasks, IsAssigned)

\* The "Task i: ..." entries of get_tasks_txt: each group is numbered by
\* enumerate(group, 1)
TasksTxt ==
    [i \in 1..Len(UnassignedTasks) |-> [index |-> i, task |-> UnassignedTasks[i]]]
    \o [i \in 1..Len(AssignedTasks) |-> [index |-> i, task |-> AssignedTasks[i]]]

\* The "Task i: Required Skills=..." lines of generate_task_assignments:
\* enumerate(self.organization.tasks, 1), unassigned tasks only
TaskContextText ==
    LET Positions == SelectSeq([i \in 1..Len(tasks) |-> i],
                               LAMBDA i : assigned_worker[tasks[i]] = 0)
    IN  [k \in 1..Len(Positions) |-> [index |-> Positions[k], task |-> tasks[Positions[k]]]]

\* The prompt's dependency summary: tasks.index(dep) raises ValueError for
\* an unassigned task that lists a dependency no longer in Organization.tasks
PromptRaises ==
    \E i \in DOMAIN tasks :
        /\ assigned_worker[tasks[i]] = 0
        /\ \E k \in DOMAIN dependencies[tasks[i]] : ~In(dependencies[tasks[i]][k], tasks)

\* Conductor.generate_task_assignments, resp being what generate returns
GenerateTaskAssignments(resp) ==
    IF PromptRaises
    THEN /\ last' = [NoLast EXCEPT !.op = "batch", !.outcome = "raised"]
         /\ UNCHANGED <<requestVars, clockVars, orgVars, taskVars, attrVars, workerVars>>
    ELSE LET r == ApplyPlan(Heap, ParseAssignmentResponse(resp), <<>>)
         IN  /\ SetHeap(r.h)
             /\ last' = [NoLast EXCEPT !.op = "batch", !.response = resp, !.ret = r.ret]
             /\ UNCHANGED <<requestVars, clockVars, orgVars, attrVars>>

\* ------------------------------------------------------------ single-task planning
\* The loop of assign_new_task over the workers: every worker whose name
\* equals the parsed line gets the task, the last of them is returned
RECURSIVE AssignMatching(_, _, _, _, _)
AssignMatching(h, line, t, w, found) ==
    IF w > Len(workers) THEN [h |-> h, worker |-> found]
    ELSE IF line = Plain(workers[w])
         THEN AssignMatching(AssignTask(h, w, t), line, t, w + 1, w)
         ELSE AssignMatching(h, line, t, w + 1, found)

\* A registration that appends the task a second time
AddTaskTwice(ts, t) == Append(Append(ts, t), t)

\* Organization.add_task without auto-assignment: self.tasks.append(task)
AddTask(ts, t) == Append(ts, t)

\* The boundary's assign_new_task: Task(...), then Conductor.assign_new_task.
\* add_task runs first; get_full_context then reads Organization.tasks for
\* the prompt (last.snapshot), before generate is called
AssignNewTask(dep_ids, prio, req, resp) ==
    /\ Cardinality(registered) < MaxTasks
    /\ priority' = [priority EXCEPT ![NewTask] = prio]
    /\ required_skills' = [required_skills EXCEPT ![NewTask] = req]
    /\ deadline' = [deadline EXCEPT ![NewTask] = <<>>]
    /\ UNCHANGED <<requestVars, clockVars, skills>>
    /\ LET t == NewTask
           lines == SplitLines(resp)
           h0 == [Heap EXCEPT !.deps[t] = ResolveDeps(dep_ids)]
           L == [NoLast EXCEPT !.op = "assign_new", !.task = t, !.dep_ids = dep_ids,
                               !.response = resp, !.snapshot = AddTask(tasks, t)]
       IN  /\ tasks' = AddTask(tasks, t)
           /\ registered' = registered \cup {t}
           /\ UNCHANGED <<workers, completed_tasks>>
           /\ IF lines = <<>>
              THEN \* splitlines()[-1] raises IndexError after add_task
                   /\ SetHeap(h0)
                   /\ last' = [L EXCEPT !.outcome = "raised"]
              ELSE LET r == AssignMatching(h0, lines[Len(lines)], t, 1, 0)
                   IN  /\ SetHeap(r.h)
                       /\ last' = [L EXCEPT !.worker = r.worker,
                                            !.outcome = IF r.worker = 0 THEN "failed"
                                                        ELSE "ok"]

\* ------------------------------------------------------------ inputs
Priorities == {5}
LoadDepIds == {<<>>, <<0>>}
WorkerSkills == {{"python"}}
TaskSkills == {{}}

Ref(word, hash, num) == [word |-> word, hash |-> hash, num |-> num]

\* A well-formed reference to index k: "Task k" for odd k, "task #k" for even k
ValidRef(k) == IF k % 2 = 1 THEN Ref("Task", FALSE, <<Digits[k + 1]>>)
               ELSE Ref("task", TRUE, <<Digits[k + 1]>>)

\* "Task 0", "Task 9", "Task -1", "Task x", and "2" (no mention of a task)
BadRefs == {Ref("Task", FALSE, <<"0">>), Ref("Task", FALSE, <<"9">>),
            Ref("Task", FALSE, <<"-", "1">>), Ref("Task", FALSE, <<"x">>),
            Ref("", FALSE, <<"2">>)}

RefTexts == {ValidRef(k) : k \in 1..MaxTasks} \cup BadRefs

\* Reference lists of length n over the reference texts rs
RefSeqs(n, rs) == [1..n -> rs]

BadCount(rs) == Cardinality({i \in DOMAIN rs : rs[i] \in BadRefs})

\* The generation capability's error string: "ERROR: Could not generate ..."
ErrorResponse == <<Entry("ERROR", <<Ref("", FALSE, <<"x">>)>>)>>

EntryA1 == Entry("Alice", <<ValidRef(1)>>)
EntryB2 == Entry("Bob", <<ValidRef(2)>>)

\* Marker, then one entry of at most MaxRefs references, at most one of them
\* malformed
OneLineResponses ==
    {<<Marker, Entry(nm, rs)>> :
        nm \in WorkerNames,
        rs \in {x \in UNION {RefSeqs(n, RefTexts) : n \in 1..MaxRefs} : BadCount(x) <= 1}}

\* Marker, then two entries holding MaxRefs references in all, drawn from the
\* well-formed references and "Task x"
TwoLineRefs == {ValidRef(k) : k \in 1..MaxTasks} \cup {Ref("Task", FALSE, <<"x">>)}

TwoLineResponses ==
    UNION {{<<Marker, Entry(n1, r1), Entry(n2, r2)>> :
                n1 \in WorkerNames, n2 \in WorkerNames,
                r1 \in RefSeqs(n, TwoLineRefs), r2 \in RefSeqs(MaxRefs - n, TwoLineRefs)} :
           n \in 1..(MaxRefs - 1)}

StructuredResponses == OneLineResponses \cup TwoLineResponses

OddResponses ==
    { ErrorResponse,
      <<Plain("")>>,
      <<Plain("REASONING"), EntryA1>>,
      <<Marker, EntryA1, Marker, EntryB2>>,
      <<EntryB2, Marker, EntryA1>>,
      <<Marker, Entry(" Alice ", <<ValidRef(1)>>)>>,
      <<Plain("REASONING"), Marker, Plain(""), EntryA1, Plain("")>> }

BatchResponses == StructuredResponses \cup OddResponses

SingleResponses ==
    UNION {{ <<Plain(n)>>, <<Plain("REASONING"), Plain(n)>>, <<Plain(n), Plain("")>>,
             <<Plain(n), Plain(""), Plain("")>> } : n \in WorkerNames}
    \cup { ErrorResponse, <<Plain("")>>, <<Plain(" Alice ")>> }

\* ------------------------------------------------------------ specification
\* The operation's result is handed to the caller: the next request may run
Return ==
    /\ last.op # "none"
    /\ last' = NoLast
    /\ UNCHANGED <<requestVars, clockVars, orgVars, taskVars, attrVars, workerVars>>

\* One request at a time (spec section 5: no operation interleaves another)
Idle == last.op = "none"

\* The requests a client may send, with at most maxW workers created and the
\* generation capability answering from batch and single
NextOn(maxW, batch, single) ==
    \/ Idle /\ Len(workers) < maxW
            /\ \E n \in WorkerNames, sk \in WorkerSkills : CreateWorker(n, sk)
    \/ Idle /\ \E ids \in DepIdSeqs, p \in Priorities, rq \in TaskSkills :
                  CreateTask(ids, p, rq)
    \/ Idle /\ \E ids \in DepIdSeqs, p \in Priorities, rq \in TaskSkills :
                  AddTaskAuto(ids, p, rq)
    \/ Idle /\ \E i \in 0..MaxTasks, n \in WorkerNames : DirectAssign(i, n)
    \/ Idle /\ \E t \in TaskIds : HandleTaskCompletion(t)
    \/ Idle /\ \E t \in TaskIds : TaskUpdateStatus(t)
    \/ Idle /\ \E r \in batch : GenerateTaskAssignments(r)
    \/ Idle /\ \E ids \in DepIdSeqs, p \in Priorities, rq \in TaskSkills, r \in single :
                  AssignNewTask(ids, p, rq, r)
    \/ Return

Next == NextOn(MaxWorkers, BatchResponses, SingleResponses)

Spec == Init /\ [][Next]_vars

\* ------------------------------------------------------------ three workers
\* The same machine with one more worker and few responses: a planning
\* response that names task 1 for two workers, and a bare worker name
TrioBatch == {<<Marker, Entry(n1, <<ValidRef(1)>>), Entry(n2, <<ValidRef(1)>>)>> :
                 n1 \in WorkerNames, n2 \in WorkerNames}
TrioSingle == {<<Plain(n)>> : n \in WorkerNames}

NextTrio == NextOn(MaxWorkers + 1, TrioBatch, TrioSingle)

SpecTrio == Init /\ [][NextTrio]_vars

\* ------------------------------------------------------------ repeated reassignment
\* Three workers, planning and one more direct reassignment than elsewhere
NextReassign ==
    \/ Idle /\ Len(workers) < MaxWorkers + 1
            /\ \E n \in WorkerNames, sk \in WorkerSkills : CreateWorker(n, sk)
    \/ Idle /\ \E p \in Priorities, rq \in TaskSkills : CreateTask(<<>>, p, rq)
    \/ Idle /\ \E i \in 0..MaxTasks, n \in WorkerNames :
                  DirectAssignUpTo(i, n, MaxReassign + 1)
    \/ Idle /\ \E r \in TrioBatch : GenerateTaskAssignments(r)
    \/ Idle /\ \E p \in Priorities, rq \in TaskSkills, r \in TrioSingle :
                  AssignNewTask(<<>>, p, rq, r)
    \/ Return

SpecReassign == Init /\ [][NextReassign]_vars

\* ------------------------------------------------------------ generation
\* generate(prompt): key tells whether CLAUDE_API_KEY is set, primary and
\* fallback whether the call through each client succeeds, text is what the
\* client that succeeds answers
Generate(key, primary, fallback, text) ==
    IF ~key THEN [raised |-> TRUE, text |-> <<>>]
    ELSE IF primary \/ fallback THEN [raised |-> FALSE, text |-> text]
    ELSE [raised |-> FALSE, text |-> ErrorResponse]

\* ------------------------------------------------------------ concurrent requests
\* The handlers of main.py are plain functions: the server runs each request
\* on a thread of its pool, and main.py takes no lock.  A batch planning
\* round is therefore a sequence of steps between which other requests run:
\* building the prompt, the call of generate, and, for each planned task,
\* the availability check and the assignment.  Direct assignments are
\* requested here for tasks that have no worker.
ServedResponses ==
    {<<Marker, Entry(n, <<ValidRef(k)>>)>> : n \in WorkerNames, k \in 1..MaxTasks}

\* generate_task_assignments up to the call of generate: the prompt is
\* built from Organization.tasks as it is now
RoundStart(r) ==
    /\ rounds[r].pc = "idle"
    /\ IF PromptRaises
       THEN /\ last' = [NoLast EXCEPT !.op = "batch", !.outcome = "raised"]
            /\ UNCHANGED rounds
       ELSE /\ rounds' = [rounds EXCEPT ![r] =
                             [NoRound EXCEPT !.pc = "generating", !.snapshot = tasks]]
            /\ UNCHANGED last
    /\ UNCHANGED <<clockVars, orgVars, taskVars, attrVars, workerVars>>

\* generate returns or raises; the response is parsed against
\* Organization.tasks as it is now
RoundGenerated(r, key, primary, fallback, text) ==
    /\ rounds[r].pc = "generating"
    /\ LET g == Generate(key, primary, fallback, text)
       IN  rounds' = [rounds EXCEPT ![r] =
              [@ EXCEPT !.pc = IF g.raised THEN "raised" ELSE "applying",
                        !.failed = ~key \/ (~primary /\ ~fallback),
                        !.response = g.text,
                        !.plan = IF g.raised THEN <<>>
                                 ELSE ParseAssignmentResponse(g.text)]]
    /\ UNCHANGED <<clockVars, orgVars, taskVars, attrVars, workerVars, last>>

\* The apply loop up to its next assignment: an entry without tasks left is
\* recorded, a task that has a worker is skipped, a task without one is
\* about to be assigned
RoundCheck(r) ==
    /\ rounds[r].pc = "applying"
    /\ rounds[r].plan # <<>>
    /\ LET rd == rounds[r]
           en == Head(rd.plan)
       IN  rounds' = [rounds EXCEPT ![r] =
              IF en.tasks = <<>> \/ FindWorker(en.name) = 0
              THEN [rd EXCEPT !.plan = Tail(rd.plan), !.done = <<>>,
                              !.ret = IF FindWorker(en.name) = 0 THEN rd.ret
                                      ELSE Record(rd.ret, en.name, rd.done)]
              ELSE IF Available(Heap, Head(en.tasks))
              THEN [rd EXCEPT !.pc = "assigning"]
              ELSE [rd EXCEPT !.plan[1].tasks = Tail(en.tasks)]]
    /\ UNCHANGED <<clockVars, orgVars, taskVars, attrVars, workerVars, last>>

\* worker.assign_task(task); task.update_status() for the task just checked
RoundAssign(r) ==
    /\ rounds[r].pc = "assigning"
    /\ LET rd == rounds[r]
           en == Head(rd.plan)
           t == Head(en.tasks)
           h1 == AssignTask(Heap, FindWorker(en.name), t)
       IN  /\ SetHeap([h1 EXCEPT !.st[t] = UpdateStatus(h1.st, h1.deps, h1.aw, t)])
           /\ rounds' = [rounds EXCEPT ![r] =
                 [rd EXCEPT !.pc = "applying", !.plan[1].tasks = Tail(en.tasks),
                            !.done = Append(rd.done, t)]]
    /\ UNCHANGED <<clockVars, orgVars, attrVars, last>>

\* The round hands its result, or the exception of generate, to its caller;
\* the thread serves no other round
RoundReturn(r) ==
    /\ \/ rounds[r].pc = "applying" /\ rounds[r].plan = <<>>
       \/ rounds[r].pc = "raised"
    /\ last' = [NoLast EXCEPT !.op = "batch", !.response = rounds[r].response,
                              !.ret = rounds[r].ret,
                              !.outcome = IF rounds[r].pc = "raised" THEN "raised"
                                          ELSE "ok"]
    /\ rounds' = [rounds EXCEPT ![r] = [NoRound EXCEPT !.pc = "returned"]]
    /\ UNCHANGED <<clockVars, orgVars, taskVars, attrVars, workerVars>>

\* The organization after POST /workers for Alice and for Bob
InitServed ==
    /\ rounds = [r \in RoundIds |-> NoRound]
    /\ workers = <<"Alice", "Bob">>
    /\ tasks = <<>>
    /\ completed_tasks = <<>>
    /\ registered = {}
    /\ assigned_worker = [t \in TaskIds |-> 0]
    /\ status = [t \in TaskIds |-> "pending"]
    /\ dependencies = [t \in TaskIds |-> <<>>]
    /\ completed_time = [t \in TaskIds |-> 0]
    /\ assignment_time = [t \in TaskIds |-> IF assigned_worker[t] = 0 THEN -1 ELSE 0]
    /\ avg_completion_time = [w \in WorkerIds |-> [num |-> 0, den |-> 1]]
    /\ hours = [w \in WorkerIds |-> <<>>]
    /\ now = 0
    /\ priority = [t \in TaskIds |-> 0]
    /\ required_skills = [t \in TaskIds |-> {}]
    /\ deadline = [t \in TaskIds |-> <<>>]
    /\ skills = [w \in WorkerIds |-> IF w <= 2 THEN {"python"} ELSE {}]
    /\ assigned_tasks = [w \in WorkerIds |-> <<>>]
    /\ worker_completed = [w \in WorkerIds |-> <<>>]
    /\ tasks_completed = [w \in WorkerIds |-> 0]
    /\ task_history = [w \in WorkerIds |-> [assigned |-> 0, completed |-> 0]]
    /\ last = NoLast

NextServed ==
    \/ Idle /\ \E p \in Priorities, rq \in TaskSkills : CreateTask(<<>>, p, rq)
    \/ Idle /\ \E i \in 0..MaxTasks, n \in WorkerNames :
                 /\ i < Len(tasks) /\ assigned_worker[tasks[i + 1]] = 0
                 /\ DirectAssign(i, n)
    \/ Idle /\ \E t \in TaskIds : HandleTaskCompletion(t)
    \/ Idle /\ \E r \in RoundIds : RoundStart(r)
    \/ Idle /\ \E r \in RoundIds, key, primary, fallback \in BOOLEAN,
                    text \in ServedResponses :
                 RoundGenerated(r, key, primary, fallback, text)
    \/ Idle /\ \E r \in RoundIds : RoundCheck(r)
    \/ Idle /\ \E r \in RoundIds : RoundAssign(r)
    \/ Idle /\ \E r \in RoundIds : RoundReturn(r)
    \/ Return

SpecServed == InitServed /\ [][NextServed]_vars

\* ------------------------------------------------------------ auto-assignment runs
\* The engine used through Organization.add_task(auto_assign=True), with
\* priorities within the 1..10 range of TaskCreate, workers of different
\* skills and tasks with and without required skills, so that workload and
\* skill boost pull the score in different directions
LoadPriorities == {4, 8}
LoadWorkerSkills == {{"python"}, {"design"}}
LoadTaskSkills == {{}, {"python"}}

NextAuto ==
    \/ Idle /\ Len(workers) < MaxWorkers
            /\ \E n \in WorkerNames, sk \in LoadWorkerSkills : CreateWorker(n, sk)
    \/ Idle /\ \E ids \in LoadDepIds, p \in LoadPriorities, rq \in LoadTaskSkills :
                 CreateTask(ids, p, rq)
    \/ Idle /\ \E ids \in LoadDepIds, p \in LoadPriorities, rq \in LoadTaskSkills :
                 AddTaskAuto(ids, p, rq)
    \/ Idle /\ \E i \in 0..MaxTasks, n \in WorkerNames : DirectAssign(i, n)
    \/ Idle /\ \E t \in TaskIds : HandleTaskCompletion(t)
    \/ Return

SpecAuto == Init /\ [][NextAuto]_vars

\* ------------------------------------------------------------ completion times
\* The engine with a clock: one hour passes between operations, so tasks are
\* completed any number of hours, up to MaxClock, after their assignment
Tick ==
    /\ now < MaxClock
    /\ now' = now + 1
    /\ UNCHANGED <<orgVars, taskVars, attrVars, workerVars, requestVars, last>>

NextTimed ==
    \/ Idle /\ Len(workers) < MaxWorkers
            /\ \E n \in WorkerNames, sk \in WorkerSkills : CreateWorker(n, sk)
    \/ Idle /\ \E p \in Priorities, rq \in TaskSkills : CreateTask(<<>>, p, rq)
    \/ Idle /\ \E i \in 0..MaxTasks, n \in WorkerNames : DirectAssign(i, n)
    \/ Idle /\ \E t \in TaskIds : HandleTaskCompletion(t)
    \/ Idle /\ Tick
    \/ Return

SpecTimed == Init /\ [][NextTimed]_vars

\* ------------------------------------------------------------ planning and completion for ever
\* A planning round that does not raise, on a response that names the
\* unassigned task t of Organization.tasks for a registered worker
SuccessfulRoundFor(t) ==
    /\ Idle /\ ~PromptRaises
    /\ In(t, tasks) /\ assigned_worker[t] = 0
    /\ \E r \in ServedResponses :
          /\ \E i \in DOMAIN ParseAssignmentResponse(r) :
                 In(t, ParseAssignmentResponse(r)[i].tasks)
          /\ GenerateTaskAssignments(r)

\* handle_task_completion called for the assigned, uncompleted task t
CompletionOf(t) ==
    /\ Idle /\ assigned_worker[t] # 0 /\ status[t] # "completed"
    /\ HandleTaskCompletion(t)

\* Alice and Bob are registered; tasks are created with any dependency ids,
\* rounds are requested, tasks are assigned directly and completed
NextLive ==
    \/ Idle /\ \E ids \in DepIdSeqs, p \in Priorities, rq \in TaskSkills :
                  CreateTask(ids, p, rq)
    \/ Idle /\ \E i \in 0..MaxTasks, n \in WorkerNames : DirectAssign(i, n)
    \/ Idle /\ \E r \in ServedResponses : GenerateTaskAssignments(r)
    \/ Idle /\ \E t \in TaskIds : HandleTaskCompletion(t)
    \/ Return

\* The states in which SuccessfulRoundFor(t) can be taken: the responses
\* name every position of Organization.tasks for a registered worker
RoundPossibleFor(t) ==
    /\ Idle /\ ~PromptRaises
    /\ In(t, tasks) /\ assigned_worker[t] = 0
    /\ workers # <<>>

\* A planning round is requested, whatever becomes of it
RoundRequested == Idle /\ \E r \in ServedResponses : GenerateTaskAssignments(r)

\* Every request is answered; planning rounds are requested again and
\* again; a task that is again and again without worker
\* while a round can succeed is named by a successful round (strong
\* fairness of SuccessfulRoundFor(t), its enabling condition written out);
\* a task that is again and again assigned is passed to
\* handle_task_completion
Fairness ==
    /\ WF_vars(Return)
    /\ []<><<RoundRequested>>_vars
    /\ \A t \in TaskIds :
          []<>RoundPossibleFor(t) => []<><<SuccessfulRoundFor(t)>>_vars
    /\ \A t \in TaskIds : SF_vars(CompletionOf(t))

SpecLive == InitServed /\ [][NextLive]_vars /\ Fairness

\* ------------------------------------------------------------ update_status alone
\* Task.update_status on tasks in any state: every status, every list of
\* at most MaxDeps dependencies, with or without worker.  is_blocked asks
\* whether some dependency is incomplete, so the lists are drawn without
\* repeats and in one order
Statuses == {"pending", "blocked", "in_progress", "completed"}
DepLists == {s \in UNION {[1..n -> TaskIds] : n \in 0..MaxDeps} :
                \A i, j \in DOMAIN s : i < j => s[i] < s[j]}

InitStatus ==
    /\ rounds = [r \in RoundIds |-> NoRound]
    /\ workers = <<"Alice">>
    /\ tasks = [i \in TaskIds |-> i]
    /\ completed_tasks = <<>>
    /\ registered = TaskIds
    /\ assigned_worker \in [TaskIds -> {0, 1}]
    /\ status \in [TaskIds -> Statuses]
    /\ dependencies \in [TaskIds -> DepLists]
    /\ completed_time = [t \in TaskIds |-> 0]
    /\ assignment_time = [t \in TaskIds |-> IF assigned_worker[t] = 0 THEN -1 ELSE 0]
    /\ avg_completion_time = [w \in WorkerIds |-> [num |-> 0, den |-> 1]]
    /\ hours = [w \in WorkerIds |-> <<>>]
    /\ now = 0
    /\ priority = [t \in TaskIds |-> 0]
    /\ required_skills = [t \in TaskIds |-> {}]
    /\ deadline = [t \in TaskIds |-> <<>>]
    /\ skills = [w \in WorkerIds |-> {}]
    /\ assigned_tasks = [w \in WorkerIds |-> <<>>]
    /\ worker_completed = [w \in WorkerIds |-> <<>>]
    /\ tasks_completed = [w \in WorkerIds |-> 0]
    /\ task_history = [w \in WorkerIds |-> [assigned |-> 0, completed |-> 0]]
    /\ last = NoLast

NextStatus == \E t \in TaskIds : TaskUpdateStatus(t)

SpecStatus == InitStatus /\ [][NextStatus]_vars

\* ------------------------------------------------------------ urgency_score alone
\* Task.urgency_score() called on task t by a user of the engine; last.ret
\* holds the score returned
TaskUrgencyScore(t) ==
    /\ t \in registered
    /\ last' = [NoLast EXCEPT !.op = "urgency_score", !.task = t,
                              !.ret = <<UrgencyScoreAt(priority[t], deadline[t], now)>>]
    /\ UNCHANGED <<orgVars, taskVars, attrVars, workerVars, requestVars, clockVars>>

\* Tasks built by Task(..., priority, deadline): no deadline, or one due at an
\* hour on either side of each step of the bonus, read while the clock runs
UrgencyPriorities == {1, 5, 10}
Deadlines == {<<>>} \cup {<<h>> : h \in {-1, 0, 1, 10, 23, 24, 71, 72, 167, 168, 175}}

InitUrgency ==
    /\ rounds = [r \in RoundIds |-> NoRound]
    /\ workers = <<>>
    /\ tasks = [i \in TaskIds |-> i]
    /\ completed_tasks = <<>>
    /\ registered = TaskIds
    /\ assigned_worker = [t \in TaskIds |-> 0]
    /\ status = [t \in TaskIds |-> "pending"]
    /\ dependencies = [t \in TaskIds |-> <<>>]
    /\ completed_time = [t \in TaskIds |-> 0]
    /\ assignment_time = [t \in TaskIds |-> -1]
    /\ avg_completion_time = [w \in WorkerIds |-> [num |-> 0, den |-> 1]]
    /\ hours = [w \in WorkerIds |-> <<>>]
    /\ now = 0
    /\ priority \in [TaskIds -> UrgencyPriorities]
    /\ deadline \in [TaskIds -> Deadlines]
    /\ required_skills = [t \in TaskIds |-> {}]
    /\ skills = [w \in WorkerIds |-> {}]
    /\ assigned_tasks = [w \in WorkerIds |-> <<>>]
    /\ worker_completed = [w \in WorkerIds |-> <<>>]
    /\ tasks_completed = [w \in WorkerIds |-> 0]
    /\ task_history = [w \in WorkerIds |-> [assigned |-> 0, completed |-> 0]]
    /\ last = NoLast

NextUrgency ==
    \/ Idle /\ \E t \in TaskIds : TaskUrgencyScore(t)
    \/ Idle /\ Tick
    \/ Return

SpecUrgency == InitUrgency /\ [][NextUrgency]_vars

\* ------------------------------------------------------------ properties
\* How often task t occurs in the assigned_tasks lists of all workers
Holders(t) == {w \in DOMAIN workers : In(t, assigned_tasks[w])}
Copies(t) == SumOver([w \in WorkerIds |-> Count(t, assigned_tasks[w])], Cardinality(WorkerIds))

\* No two registered workers carry the same name
UniqueNames == \A i, j \in DOMAIN workers : workers[i] = workers[j] => i = j

\* C1: every task ever registered is in exactly one of Organization.tasks
\* and Organization.completed_tasks, once, after any sequence of task
\* creation, assignment (batch, single, direct, automatic) and completion
C1_Partition ==
    \A t \in registered : Count(t, tasks) + Count(t, completed_tasks) = 1

\* A completion has archived one task while another, assigned, stays active
C1_Witness ==
    /\ last.op = "complete" /\ last.outcome = "ok"
    /\ In(last.task, completed_tasks) /\ ~In(last.task, tasks)
    /\ \E t \in Range(tasks) : assigned_worker[t] # 0

\* C2: provided worker names are unique, a task is in at most one worker's
\* assigned_tasks and at most once in that list
C2_SingleHolder ==
    UniqueNames => \A t \in registered : Copies(t) <= 1

\* A direct assignment has moved a task from one worker to the other, and
\* both workers, of different names, hold a task
C2_Witness ==
    /\ UniqueNames /\ Len(workers) = 2
    /\ last.op = "direct_assign" /\ last.outcome = "ok" /\ Unassignments = 1
    /\ Copies(last.task) = 1
    /\ \A w \in DOMAIN workers : assigned_tasks[w] # <<>>

BatchStep == last.op = "none" /\ last'.op = "batch" /\ last'.outcome = "ok"

\* The entries of a parsed plan that hold task t
NamedFor(plan, t) == {i \in DOMAIN plan : In(t, plan[i].tasks)}

\* The entries of a returned mapping that hold task t
ReturnedUnder(ret, t) == {j \in DOMAIN ret : In(t, ret[j].tasks)}

\* C4 as stated: when the parsed plan names an unassigned task for two
\* workers, the round assigns it to the first of them in application order,
\* the later workers' lists do not gain it, exactly one worker's
\* assigned_tasks holds it afterwards, and the returned mapping holds it
\* under the first worker only; an already assigned task keeps its worker
C4_FirstWriterWins ==
    [][BatchStep =>
        LET plan == ParseAssignmentResponse(last'.response)
        IN  \A t \in Range(tasks) :
              LET named == NamedFor(plan, t)
                  first == CHOOSE i \in named : \A j \in named : i <= j
                  w == FindWorker(plan[first].name)
              IN  /\ (Cardinality(named) >= 2 /\ assigned_worker[t] = 0) =>
                        /\ assigned_worker'[t] = w
                        /\ \A i \in named \ {first} :
                              LET v == FindWorker(plan[i].name)
                              IN  Count(t, assigned_tasks'[v]) = Count(t, assigned_tasks[v])
                        /\ Holders(t)' = {w}
                        /\ \A j \in ReturnedUnder(last'.ret, t) :
                              last'.ret[j].name = plan[first].name
                        /\ ReturnedUnder(last'.ret, t) # {}
                  /\ assigned_worker[t] # 0 => assigned_worker'[t] = assigned_worker[t]
    ]_vars

\* The references "Task k" / "task #k" to the tasks now in Organization.tasks
GoodRefs == {ValidRef(k) : k \in DOMAIN tasks}
RefNo(ref) == CHOOSE k \in DOMAIN tasks : ref = ValidRef(k)

\* The marker, then one entry per existing worker, the entries referring to
\* distinct unassigned tasks by valid 1-based indices
WellFormed(resp) ==
    /\ Len(resp) >= 2 /\ resp[1] = Marker
    /\ \A i \in 2..Len(resp) :
          /\ resp[i].kind = "entry" /\ FindWorker(resp[i].name) # 0
          /\ resp[i].refs # <<>>
          /\ \A k \in DOMAIN resp[i].refs :
                /\ resp[i].refs[k] \in GoodRefs
                /\ assigned_worker[tasks[RefNo(resp[i].refs[k])]] = 0
    /\ \A i, j \in 2..Len(resp) : resp[i].name = resp[j].name => i = j
    /\ \A i, j \in 2..Len(resp) :
          \A k \in DOMAIN resp[i].refs, l \in DOMAIN resp[j].refs :
              resp[i].refs[k] = resp[j].refs[l] => (i = j /\ k = l)

\* The tasks an entry of a well-formed response refers to, in text order
Referenced(entry) == [k \in DOMAIN entry.refs |-> tasks[RefNo(entry.refs[k])]]

\* C5: a round on a well-formed response assigns each referenced task
\* Organization.tasks[k-1] to the worker on whose line it stands, and
\* returns, per line, the worker's name with its tasks in text order
C5_WellFormedRound ==
    [][(BatchStep /\ WellFormed(last'.response)) =>
        LET resp == last'.response
        IN  /\ \A i \in 2..Len(resp) :
                  \A k \in DOMAIN resp[i].refs :
                      LET t == tasks[RefNo(resp[i].refs[k])]
                          w == FindWorker(resp[i].name)
                      IN  /\ assigned_worker'[t] = w
                          /\ In(t, assigned_tasks'[w])
            /\ last'.ret = [i \in 1..(Len(resp) - 1) |->
                              [name |-> resp[i + 1].name,
                               tasks |-> Referenced(resp[i + 1])]]
    ]_vars

\* A round has applied a well-formed response of two references
C5_Witness ==
    /\ last.op = "batch" /\ last.outcome = "ok"
    /\ Len(last.response) >= 2 /\ last.response[1] = Marker
    /\ \A i \in 2..Len(last.response) : last.response[i].kind = "entry"
    /\ Len(last.ret) = Len(last.response) - 1
    /\ \A i \in DOMAIN last.ret :
          /\ last.ret[i].name = last.response[i + 1].name
          /\ Len(last.ret[i].tasks) = Len(last.response[i + 1].refs)
    /\ SumOver([i \in 1..2 |-> IF i \in DOMAIN last.ret THEN Len(last.ret[i].tasks) ELSE 0], 2) = 2

\* A response with every reference deleted that is no valid reference to a
\* task of Organization.tasks
IsGoodRef(ref) == ref \in GoodRefs
Sanitized(resp) ==
    [i \in DOMAIN resp |->
        IF resp[i].kind = "entry"
        THEN [resp[i] EXCEPT !.refs = SelectSeq(@, IsGoodRef)]
        ELSE resp[i]]

\* The entries of the structured section that name an existing worker
PlanLines(resp) ==
    IF HasMarker(resp)
    THEN SelectSeq(Section(resp),
                   LAMBDA l : l.kind = "entry" /\ FindWorker(StripName(l.name)) # 0)
    ELSE <<>>

\* C6: a reference out of 1..len(tasks) or not an integer is skipped alone:
\* each line resolves to the tasks of its valid references, in order; the
\* round does to tasks, workers and returned mapping what it does on the
\* response without the invalid references; and every task the round
\* assigns is the task of a valid reference
C6_InvalidRefSkippedAlone ==
    [][BatchStep =>
        LET resp == last'.response
            lines == PlanLines(resp)
            clean == ApplyPlan(Heap, ParseAssignmentResponse(Sanitized(resp)), <<>>)
        IN  /\ \A i \in DOMAIN lines :
                  ResolveRefs(lines[i].refs) = Referenced(Sanitized(lines)[i])
            /\ [h |-> Heap', ret |-> last'.ret] = clean
            /\ \A t \in registered :
                  assigned_worker'[t] # assigned_worker[t] =>
                      \E i \in DOMAIN lines : \E k \in DOMAIN lines[i].refs :
                          /\ lines[i].refs[k] \in GoodRefs
                          /\ tasks[RefNo(lines[i].refs[k])] = t
    ]_vars

\* A round has applied a line holding an invalid reference before a valid
\* one: the task of the valid reference is in the returned mapping
C6_Witness ==
    /\ last.op = "batch" /\ last.outcome = "ok"
    /\ \E i \in DOMAIN PlanLines(last.response) :
          LET l == PlanLines(last.response)[i]
          IN  /\ Len(l.refs) = 2
              /\ l.refs[1] \in BadRefs
              /\ l.refs[2] \in GoodRefs
              /\ ReturnedUnder(last.ret, tasks[RefNo(l.refs[2])]) # {}

\* C7: the returned mapping holds exactly the pairs the round applied: each
\* task in it had no worker before and has the named worker after, each
\* task whose worker changed is in it, once, and no name maps to no tasks
C7_ReturnedIsApplied ==
    [][BatchStep =>
        LET ret == last'.ret
        IN  /\ \A j \in DOMAIN ret :
                  /\ ret[j].tasks # <<>>
                  /\ FindWorker(ret[j].name) # 0
                  /\ \A k \in DOMAIN ret[j].tasks :
                        LET t == ret[j].tasks[k]
                        IN  /\ assigned_worker[t] = 0
                            /\ assigned_worker'[t] = FindWorker(ret[j].name)
                            /\ In(t, assigned_tasks'[FindWorker(ret[j].name)])
                            /\ Count(t, ret[j].tasks) = 1
            /\ \A i, j \in DOMAIN ret : ret[i].name = ret[j].name => i = j
            /\ \A t \in registered :
                  assigned_worker'[t] # assigned_worker[t] =>
                      Cardinality(ReturnedUnder(ret, t)) = 1
            /\ \A w \in WorkerIds :
                  Len(assigned_tasks'[w]) - Len(assigned_tasks[w])
                      = Cardinality({t \in registered :
                                        /\ assigned_worker'[t] = w
                                        /\ assigned_worker[t] = 0})
    ]_vars

\* A round has applied one entry of its plan and skipped another, whose
\* task had a worker already
C7_Witness ==
    /\ last.op = "batch" /\ last.outcome = "ok"
    /\ last.ret # <<>>
    /\ Len(ParseAssignmentResponse(last.response)) > Len(last.ret)
    /\ \A i \in DOMAIN ParseAssignmentResponse(last.response) :
          ParseAssignmentResponse(last.response)[i].tasks # <<>>

\* C8: a round whose response holds no marker returns the empty mapping
\* and changes no task, no worker and no list of the organization, so that
\* the next round starts from the state the failed one started from
C8_NoMarkerNoChange ==
    [][(BatchStep /\ ~HasMarker(last'.response)) =>
        /\ last'.ret = <<>>
        /\ UNCHANGED <<orgVars, taskVars, attrVars, workerVars>>
    ]_vars

\* A round has read a response without marker whose entry names an existing
\* worker and an unassigned task
C8_Witness ==
    /\ last.op = "batch" /\ last.outcome = "ok"
    /\ last.response = <<Plain("REASONING"), EntryA1>>
    /\ last.ret = <<>>
    /\ FindWorker("Alice") # 0
    /\ tasks # <<>> /\ assigned_worker[tasks[1]] = 0

\* C9 as stated: every batch planning round returns a mapping, none raises
C9_RoundNeverRaises ==
    last.op = "batch" => last.outcome # "raised"

\* The last line of a response that is not blank, 0 if all lines are blank
LastNonEmpty(resp) ==
    LET full == {i \in DOMAIN resp : resp[i] # Plain("")}
    IN  IF full = {} THEN 0 ELSE CHOOSE i \in full : \A j \in full : j <= i

\* C10 as stated: when the last non-empty line of the response is a
\* registered worker's name, the new task is assigned to a worker of that
\* name, is in that worker's assigned_tasks, and that worker is returned
C10_LastNonEmptyLine ==
    (/\ last.op = "assign_new"
     /\ LastNonEmpty(last.response) # 0
     /\ last.response[LastNonEmpty(last.response)].kind = "plain"
     /\ FindWorker(last.response[LastNonEmpty(last.response)].name) # 0)
    => /\ last.outcome = "ok"
       /\ last.worker \in DOMAIN workers
       /\ workers[last.worker] = last.response[LastNonEmpty(last.response)].name
       /\ assigned_worker[last.task] = last.worker
       /\ In(last.task, assigned_tasks[last.worker])

\* A line that is a registered worker's name
NamesWorker(line) == line.kind = "plain" /\ FindWorker(line.name) # 0

\* A response whose last non-empty line is no registered worker's name
Unresolved(resp) ==
    LastNonEmpty(resp) = 0 \/ ~NamesWorker(resp[LastNonEmpty(resp)])

\* C11 as stated: with a worker registered, single-task planning on a
\* response that resolves to no worker name assigns the new task to the
\* first worker, returns that worker and does not raise
C11_FirstWorkerFallback ==
    (last.op = "assign_new" /\ workers # <<>> /\ Unresolved(last.response))
    => /\ last.outcome = "ok"
       /\ last.worker = 1
       /\ assigned_worker[last.task] = 1
       /\ In(last.task, assigned_tasks[1])

\* A step that is one call of handle_task_completion
CompletionStep == last.op = "none" /\ last'.op = "complete"

\* C12: handle_task_completion on a task without assigned worker returns
\* the failure value, reported as a 400, and leaves statuses, completion
\* times, the workers' lists and metrics and both task lists of the
\* organization as they were
C12_CompletionRefused ==
    [][(CompletionStep /\ assigned_worker[last'.task] = 0) =>
        /\ last'.outcome = "bad_request"
        /\ UNCHANGED <<orgVars, taskVars, attrVars, workerVars>>
    ]_vars

\* A completion of an active, unassigned task has been refused while a
\* worker holds another task
C12_Witness ==
    /\ last.op = "complete" /\ last.outcome = "bad_request"
    /\ In(last.task, tasks) /\ assigned_worker[last.task] = 0
    /\ status[last.task] # "completed" /\ completed_time[last.task] = 0
    /\ \E w \in DOMAIN workers : assigned_tasks[w] # <<>>

\* C13: a status turns completed only in a handle_task_completion call on
\* that task, the task having an assigned worker when the call starts
C13_OnlyCompletionCompletes ==
    [][\A t \in TaskIds :
          (status[t] # "completed" /\ status'[t] = "completed") =>
              /\ last'.op = "complete" /\ last'.task = t /\ last'.outcome = "ok"
              /\ assigned_worker[t] # 0
    ]_vars

\* A task has been completed by its worker while update_status has put
\* another task in progress
C13_Witness ==
    /\ last.op = "complete" /\ last.outcome = "ok"
    /\ status[last.task] = "completed" /\ assigned_worker[last.task] # 0
    /\ \E u \in registered : u # last.task /\ status[u] = "in_progress"

\* What C14 says of a completion of task t, assigned to worker w, that
\* succeeds
CompletionEffect(t, w) ==
    /\ ~In(t, assigned_tasks'[w])
    /\ worker_completed'[w] = Append(worker_completed[w], t)
    /\ status'[t] = "completed"
    /\ tasks_completed'[w] = tasks_completed[w] + 1
    /\ task_history'[w] = [task_history[w] EXCEPT !.completed = @ + 1]
    /\ ~In(t, tasks') /\ Len(tasks') = Len(tasks) - 1
    /\ completed_tasks' = Append(completed_tasks, t)
    /\ \A v \in WorkerIds \ {w} :
          /\ assigned_tasks'[v] = assigned_tasks[v]
          /\ worker_completed'[v] = worker_completed[v]

\* C14 as stated: a successful handle_task_completion(T), T being an
\* active task assigned to W, takes T out of W.assigned_tasks, appends it
\* to W.completed_tasks, sets its status completed, adds one to W's
\* tasks_completed and one completed entry to W.task_history, moves T from
\* Organization.tasks to the end of completed_tasks, and leaves the lists
\* of every other worker as they were
C14_CompletionEffect ==
    [][(CompletionStep /\ last'.outcome = "ok" /\ In(last'.task, tasks)) =>
        CompletionEffect(last'.task, assigned_worker[last'.task])
    ]_vars

\* The same, for organizations whose worker names are unique
C14_UniqueNames ==
    [][(CompletionStep /\ last'.outcome = "ok" /\ In(last'.task, tasks) /\ UniqueNames) =>
        CompletionEffect(last'.task, assigned_worker[last'.task])
    ]_vars

\* C15 as stated: a completed task stays completed under every later
\* operation, and its completed_time, written at the transition into
\* completed, is not written again
C15_CompletedIsTerminal ==
    [][\A t \in TaskIds :
          /\ status[t] = "completed" =>
                (status'[t] = "completed" /\ completed_time'[t] = completed_time[t])
          /\ completed_time'[t] # completed_time[t] =>
                (status[t] # "completed" /\ status'[t] = "completed"
                    /\ completed_time[t] = 0)
    ]_vars

\* The same, for organizations whose worker names are unique
C15_UniqueNames ==
    [][UniqueNames =>
        \A t \in TaskIds :
          /\ status[t] = "completed" =>
                (status'[t] = "completed" /\ completed_time'[t] = completed_time[t])
          /\ completed_time'[t] # completed_time[t] =>
                (status[t] # "completed" /\ status'[t] = "completed"
                    /\ completed_time[t] = 0)
    ]_vars

\* The status the update_status rule yields for a task that is not
\* completed, read in the state after a step
RuleStatusAfter(u) ==
    IF \E i \in DOMAIN dependencies'[u] : status'[dependencies'[u][i]] # "completed"
    THEN "blocked"
    ELSE IF assigned_worker'[u] # 0 THEN "in_progress" ELSE "pending"

\* What C16 says of a successful completion of task d
DependantsReleased(d) ==
    \A u \in Range(tasks') :
        /\ ~In(d, dependencies'[u])
        /\ In(d, dependencies[u]) => status'[u] = RuleStatusAfter(u)

\* C16 as stated: after handle_task_completion succeeds for D, no task
\* left in Organization.tasks lists D as a dependency, and every task that
\* listed D has the status of the update_status rule
C16_DependantsReleased ==
    [][(CompletionStep /\ last'.outcome = "ok") => DependantsReleased(last'.task)]_vars

\* The same, for dependency lists that hold D at most once
C16_ListedOnce ==
    [][(CompletionStep /\ last'.outcome = "ok"
            /\ \A u \in Range(tasks) : Count(last'.task, dependencies[u]) <= 1)
        => DependantsReleased(last'.task)]_vars

\* C17 as stated: a registered task that is not completed and has a
\* dependency that is not completed has status blocked
C17_BlockedWhileDependencyOpen ==
    \A t \in registered :
        (status[t] # "completed" /\ IsBlocked(status, dependencies[t]))
            => status[t] = "blocked"

\* C18 as stated: no step takes a task into in_progress or completed while
\* one of its dependencies is not completed, and a blocked task stays
\* blocked as long as one of its dependencies is not completed
C18_DependencyOrdering ==
    [][\A t \in TaskIds :
          /\ (status'[t] # status[t] /\ status'[t] \in {"in_progress", "completed"})
                => ~IsBlocked(status, dependencies[t])
          /\ (status[t] = "blocked" /\ IsBlocked(status', dependencies'[t]))
                => status'[t] = "blocked"
    ]_vars

\* C19 as stated: a pending task has no assigned worker, and a task that
\* is not completed, has an assigned worker and no incomplete dependency
\* is in progress
C19_StatusMatchesAssignment ==
    \A t \in registered :
        /\ status[t] = "pending" => assigned_worker[t] = 0
        /\ (status[t] # "completed" /\ assigned_worker[t] # 0
                /\ ~IsBlocked(status, dependencies[t]))
              => status[t] = "in_progress"

\* C20: update_status called on a task right after update_status on the
\* same task changes no status, and update_status on a completed task
\* changes no status
C20_UpdateStatusIdempotent ==
    [][/\ (last.op = "update_status" /\ last'.op = "update_status"
              /\ last'.task = last.task) => status' = status
       /\ (last'.op = "update_status" /\ status[last'.task] = "completed")
              => status' = status
    ]_vars

\* update_status has run on an assigned task that an open dependency
\* blocks, while another task is completed
C20_Witness ==
    /\ last.op = "update_status"
    /\ status[last.task] = "blocked" /\ assigned_worker[last.task] # 0
    /\ IsBlocked(status, dependencies[last.task])
    /\ \E u \in TaskIds : status[u] = "completed"

\* ------------------------------------------------------------ auto-assignment
AutoStep == last.op = "none" /\ last'.op = "add_task_auto"

\* Ten times the workload of worker w before the step
LoadBefore(w) == SumPriority(assigned_tasks[w]) * Len(assigned_tasks[w])

\* Whether worker w shares a skill with the new task t, or t asks for none
Boosted(w, t) ==
    required_skills'[t] = {} \/ (required_skills'[t] \cap skills[w]) # {}

\* score(v) <= score(w) for the new task t, with
\* score = (1 / (1 + workload)) * urgency * skill_boost, on exact fractions
\* (both sides multiplied by 2 * (10 + load of v) * (10 + load of w))
ScoreAtMost(v, w, t) ==
    priority'[t] * (IF Boosted(v, t) THEN 3 ELSE 2) * (10 + LoadBefore(w))
        <= priority'[t] * (IF Boosted(w, t) THEN 3 ELSE 2) * (10 + LoadBefore(v))

\* C21: add_task with auto_assign gives the task to a worker whose score
\* (1/(1+workload)) * urgency * skill_boost is greatest among all registered
\* workers; of two workers with the same skills, sharing a skill with the
\* task, the one with the strictly higher workload does not get it.
C21_AutoAssignMaximal ==
    [][AutoStep /\ workers # <<>> =>
        LET t == last'.task
            w == last'.worker
        IN  /\ w \in 1..Len(workers)
            /\ assigned_worker'[t] = w
            /\ assigned_tasks'[w] = Append(assigned_tasks[w], t)
            /\ \A v \in 1..Len(workers) :
                  /\ ScoreAtMost(v, w, t)
                  /\ v # w => assigned_tasks'[v] = assigned_tasks[v]
            /\ \A a, b \in 1..Len(workers) :
                  /\ skills[a] = skills[b]
                  /\ (skills[a] \cap required_skills'[t]) # {}
                  /\ LoadBefore(a) < LoadBefore(b)
                  => w # b]_vars

\* An auto-assignment between two workers of the same skills, which the task
\* requires: the one that already had a task was passed over
C21_Witness ==
    /\ last.op = "add_task_auto"
    /\ last.worker # 0
    /\ \E v \in 1..Len(workers) :
          /\ v # last.worker
          /\ skills[v] = skills[last.worker]
          /\ (skills[v] \cap required_skills[last.task]) # {}
          /\ assigned_tasks[v] # <<>>
          /\ assigned_tasks[last.worker] = <<last.task>>

\* The workers whose score for the new task t no other worker exceeds
Tied(t) ==
    {w \in 1..Len(workers) : \A v \in 1..Len(workers) : ScoreAtMost(v, w, t)}

\* C22: when several workers tie for the greatest score, the task goes to
\* the tied worker that was registered first.
C22_FirstRegisteredWinsTies ==
    [][AutoStep /\ workers # <<>> =>
        /\ last'.worker \in Tied(last'.task)
        /\ \A v \in Tied(last'.task) : last'.worker <= v]_vars

\* C23: add_task with auto_assign and no registered worker registers the
\* task, leaves it without worker, changes no worker and returns no worker,
\* without raising.
C23_NoWorkersNoOp ==
    [][AutoStep /\ workers = <<>> =>
        /\ last'.outcome = "ok"
        /\ last'.worker = 0
        /\ tasks' = Append(tasks, last'.task)
        /\ last'.task \notin registered
        /\ assigned_worker'[last'.task] = 0
        /\ status'[last'.task] = "pending"
        /\ UNCHANGED <<workers, completed_tasks, workerVars, skills>>
        /\ \A u \in registered : /\ assigned_worker'[u] = assigned_worker[u]
                                  /\ status'[u] = status[u]]_vars

\* An auto-assignment that found the organization without workers
C23_Witness ==
    /\ last.op = "add_task_auto"
    /\ workers = <<>>
    /\ last.worker = 0
    /\ In(last.task, tasks)

\* ------------------------------------------------------------ snapshot indices
\* The task that "Task k" in a response resolves to
ResolvesTo(k, t) == ResolveRefs(<<ValidRef(k)>>) = <<t>>

\* C24: in the snapshot a planning round sends, the index shown for each
\* task is its 1-based position in Organization.tasks, the index the
\* response parser resolves back to that task.
C24_ShownIndexIsPosition ==
    [][BatchStep =>
        \A en \in Range(TasksTxt) \cup Range(TaskContextText) :
            /\ en.index \in 1..Len(tasks)
            /\ tasks[en.index] = en.task
            /\ ResolvesTo(en.index, en.task)]_vars

\* The indices of the dependency lines alone are positions in
\* Organization.tasks
C24_DependencyLinesPositional ==
    [][BatchStep =>
        \A en \in Range(TaskContextText) :
            tasks[en.index] = en.task /\ ResolvesTo(en.index, en.task)]_vars

\* ------------------------------------------------------------ concurrent requests
\* C25: the boundary serializes the mutating operations, so the check that a
\* task is still unassigned and the assignment that follows are not
\* interleaved with another operation on the task, and concurrent requests
\* cannot leave one task in the assigned_tasks of two workers.
C25_NoTaskWithTwoWorkers ==
    UniqueNames => \A t \in registered : Cardinality(Holders(t)) <= 1

\* A round whose call of generate has just returned a response
Resumes(r) == rounds[r].pc = "generating" /\ rounds'[r].pc = "applying"

\* C26: while a batch planning round is suspended in its call of generate
\* no other operation changes Organization.tasks, so each task index
\* resolves, when the response is parsed, to the task that carried the
\* index when the snapshot was built.
C26_IndicesStableAcrossGenerate ==
    [][\A r \in RoundIds : Resumes(r) =>
          \A k \in 1..Len(rounds[r].snapshot) :
              ResolvesTo(k, rounds[r].snapshot[k])]_vars

\* The text starts with the error marker of generate
BeginsWithErrorMarker(text) == text # <<>> /\ Head(text) = Head(ErrorResponse)

\* C27: generate never raises to its caller; on a missing API key, or when
\* both clients fail, it returns a string that begins with the error marker.
C27_GenerateNeverRaises ==
    \A r \in RoundIds :
        /\ rounds[r].pc # "raised"
        /\ rounds[r].pc \in {"applying", "assigning"} /\ rounds[r].failed
           => BeginsWithErrorMarker(rounds[r].response)

\* When the API key is set, the failure of both clients is answered with
\* the error string
C27_ErrorStringWithKey ==
    \A r \in RoundIds :
        rounds[r].pc \in {"applying", "assigning"} /\ rounds[r].failed
           => BeginsWithErrorMarker(rounds[r].response)

\* ------------------------------------------------------------ unresolved dependencies
\* A request that creates a task (POST /tasks or POST /tasks/new-assign)
CreationStep == last.op = "none" /\ last'.op \in {"create_task", "assign_new"}

\* The dependency indices of a request that resolve to no task of
\* Organization.tasks
UnresolvedIds(ids) == {i \in DOMAIN ids : ~(0 <= ids[i] /\ ids[i] < Len(tasks))}

\* C28: a task-creation request with a dependency index that resolves to no
\* task of Organization.tasks is answered with an explicit failure; the
\* reference is not silently dropped from the new task's dependencies.
C28_UnresolvedDependencyReported ==
    [][CreationStep /\ UnresolvedIds(last'.dep_ids) # {} =>
          /\ last'.outcome = "not_found"
          /\ tasks' = tasks]_vars

\* ------------------------------------------------------------ average completion time
RECURSIVE SumSeq(_)
SumSeq(q) == IF q = <<>> THEN 0 ELSE Head(q) + SumSeq(Tail(q))

PrioritySum(w) ==
    SumOver([t \in TaskIds |-> priority[t] * Count(t, assigned_tasks[w])], MaxTasks)

\* C30: get_workload is (sum of the priorities of the worker's
\* assigned_tasks) / 10 * (number of assigned_tasks), 0 for a worker without
\* tasks, after every assignment and completion; priorities 8 and 4 give 2.4.
\* Workloads are compared in tenths.
C30_WorkloadFormula ==
    \A w \in WorkerIds :
        /\ Workload10(w) = PrioritySum(w) * Len(assigned_tasks[w])
        /\ assigned_tasks[w] = <<>> => Workload10(w) = 0
        /\ /\ Len(assigned_tasks[w]) = 2
           /\ {priority[assigned_tasks[w][1]], priority[assigned_tasks[w][2]]} = {4, 8}
           => Workload10(w) = 24

\* After an assignment a worker holds two tasks, of priority 8 and 4
C30_Witness ==
    /\ last.op \in {"direct_assign", "add_task_auto"} /\ last.outcome = "ok"
    /\ \E w \in DOMAIN workers :
          /\ Len(assigned_tasks[w]) = 2
          /\ priority[assigned_tasks[w][1]] = 8
          /\ priority[assigned_tasks[w][2]] = 4
          /\ Workload10(w) = 24

\* ------------------------------------------------------------ urgency
\* The hours left until the deadline of task t
HoursLeft(t) == deadline[t][1] - now

\* C31: urgency_score is the priority plus a bonus that is a step function
\* of the hours left until the deadline when it is evaluated: 10 when the
\* deadline has passed (no time is left), 5 when fewer than 24 hours remain,
\* 3 when fewer than 72, 1 when fewer than 168, 0 otherwise and 0 for a
\* task without deadline.
C31_UrgencyScore ==
    last.op = "urgency_score" =>
        LET t == last.task
            bonus == last.ret[1] - priority[t]
        IN  /\ deadline[t] = <<>> => bonus = 0
            /\ deadline[t] # <<>> =>
                  /\ HoursLeft(t) <= 0 => bonus = 10
                  /\ 0 < HoursLeft(t) /\ HoursLeft(t) < 24 => bonus = 5
                  /\ 24 <= HoursLeft(t) /\ HoursLeft(t) < 72 => bonus = 3
                  /\ 72 <= HoursLeft(t) /\ HoursLeft(t) < 168 => bonus = 1
                  /\ 168 <= HoursLeft(t) => bonus = 0

\* Priority 5 with the deadline 10 hours ahead has just scored 10, while a
\* task of priority 5 whose deadline has passed scores 15
C31_Witness ==
    /\ last.op = "urgency_score"
    /\ priority[last.task] = 5
    /\ deadline[last.task] # <<>> /\ HoursLeft(last.task) = 10
    /\ last.ret = <<10>>
    /\ \E u \in TaskIds : /\ priority[u] = 5
                           /\ deadline[u] # <<>> /\ HoursLeft(u) < 0
                           /\ UrgencyScoreAt(priority[u], deadline[u], now) = 15

\* ------------------------------------------------------------ completed tasks
\* Task t is in the completed_tasks of some worker
CompletedBySomeone(t) == \E w \in WorkerIds : In(t, worker_completed[w])

\* C32: a task that is in some worker's completed_tasks is in no worker's
\* assigned_tasks, after any sequence of operations.
C32_CompletedNeverAssigned ==
    \A t \in registered :
        CompletedBySomeone(t) => \A w \in WorkerIds : ~In(t, assigned_tasks[w])

\* The same while worker names are unique
C32_UniqueNames == UniqueNames => C32_CompletedNeverAssigned


\* lines without its i-th line
WithoutLine(lines, i) == SubSeq(lines, 1, i - 1) \o SubSeq(lines, i + 1, Len(lines))

\* An entry line whose worker name resolves to no worker
UnknownWorkerLine(l) == l.kind = "entry" /\ FindWorker(StripName(l.name)) = 0

\* An entry line of an existing worker with no valid task reference
NoTaskLine(l) ==
    l.kind = "entry" /\ FindWorker(StripName(l.name)) # 0 /\ ResolveRefs(l.refs) = <<>>

\* The plan parsed from the structured section of resp equals the plan parsed
\* from the section without its i-th line
SkippedLine(resp, i) ==
    ParseAssignmentResponse(resp) = ParseLines(WithoutLine(Section(resp), i), <<>>)

\* C33: in batch parsing a line whose worker name does not resolve, or that
\* yields no valid task reference, is skipped: the parsed plan equals the
\* plan of the same response without that line
C33_BadLineSkipped ==
    [][(BatchStep /\ HasMarker(last'.response)) =>
        LET resp == last'.response
            lines == Section(resp)
        IN  \A i \in DOMAIN lines :
                (UnknownWorkerLine(lines[i]) \/ NoTaskLine(lines[i])) => SkippedLine(resp, i)
    ]_vars

\* The part on unresolved worker names alone
C33_UnknownWorkerSkipped ==
    [][(BatchStep /\ HasMarker(last'.response)) =>
        LET resp == last'.response
            lines == Section(resp)
        IN  \A i \in DOMAIN lines : UnknownWorkerLine(lines[i]) => SkippedLine(resp, i)
    ]_vars

\* A line without valid reference changes the plan only for its own worker:
\* the other workers' entries are those of the response without the line
C33_OtherWorkersKept ==
    [][(BatchStep /\ HasMarker(last'.response)) =>
        LET resp == last'.response
            lines == Section(resp)
            Others(plan, n) == SelectSeq(plan, LAMBDA p : p.name # n)
        IN  \A i \in DOMAIN lines :
                NoTaskLine(lines[i]) =>
                    Others(ParseAssignmentResponse(resp), StripName(lines[i].name))
                      = Others(ParseLines(WithoutLine(lines, i), <<>>), StripName(lines[i].name))
    ]_vars


\* The tasks the plan holds under the name n
PlannedFor(plan, n) ==
    IF \E i \in DOMAIN plan : plan[i].name = n
    THEN plan[CHOOSE i \in DOMAIN plan : plan[i].name = n].tasks
    ELSE <<>>

\* The consequence the claim draws: a line without valid reference does not
\* take away the tasks an earlier line gave to the same worker
C33_EarlierLineKept ==
    [][(BatchStep /\ HasMarker(last'.response)) =>
        LET resp == last'.response
            lines == Section(resp)
        IN  \A i \in DOMAIN lines :
                NoTaskLine(lines[i]) =>
                    LET n == StripName(lines[i].name)
                    IN  PlannedFor(ParseAssignmentResponse(resp), n)
                          = PlannedFor(ParseLines(WithoutLine(lines, i), <<>>), n)
    ]_vars



\* ------------------------------------------------------------ registration by single-task planning
\* C34: assign_new_task registers the new task before the generation call,
\* so the task list the prompt is built from holds it, and after the call
\* the task is in Organization.tasks exactly once, whether the response
\* named a worker, named none, or the parsing raised
C34_RegisteredOnceBeforeGenerate ==
    last.op = "assign_new" =>
        /\ In(last.task, last.snapshot)
        /\ Count(last.task, tasks) = 1
        /\ last.task \in registered

\* The new task was not in Organization.tasks before the operation
C34_NewlyRegistered ==
    [][(last.op = "none" /\ last'.op = "assign_new") =>
        /\ ~In(last'.task, tasks)
        /\ tasks' = Append(tasks, last'.task)]_vars

\* Single-task planning has registered a second task, listed once, although
\* the response resolved to no worker
C34_Witness ==
    /\ last.op = "assign_new" /\ last.outcome # "ok"
    /\ Len(tasks) = 2
    /\ last.snapshot = tasks
    /\ Count(last.task, tasks) = 1
    /\ assigned_worker[last.task] = 0

\* The same after a response whose last line names a worker
C34_WitnessAssigned ==
    /\ last.op = "assign_new" /\ last.outcome = "ok"
    /\ Count(last.task, tasks) = 1
    /\ In(last.task, last.snapshot)
    /\ assigned_worker[last.task] # 0



\* ------------------------------------------------------------ direct assignment
\* A step that is one direct-assignment request for a listed task
DirectStep == last.op = "none" /\ last'.op = "direct_assign" /\ last'.task # 0

\* The task of the request is assigned, to a worker whose name is not the
\* requested one, and the requested name is a registered worker's
ToOtherWorker ==
    /\ DirectStep
    /\ assigned_worker[last'.task] # 0
    /\ workers[assigned_worker[last'.task]] # last'.name
    /\ FindWorker(last'.name) # 0

\* The task of the request is assigned to a worker of the requested name
ToHolder ==
    /\ DirectStep
    /\ assigned_worker[last'.task] # 0
    /\ workers[assigned_worker[last'.task]] = last'.name

\* What the claim says of a reassignment from W1 to W2
Reassigned ==
    LET t == last'.task
        w1 == assigned_worker[t]
        w2 == FindWorker(last'.name)
    IN  /\ last'.outcome = "ok" /\ last'.worker = w2
        /\ ~In(t, assigned_tasks'[w1])
        /\ In(t, assigned_tasks'[w2])
        /\ assigned_worker'[t] = w2
        /\ assignment_time'[t] = now

\* C35: a direct assignment of a task held by W1 to another existing worker
\* W2 takes the task out of W1.assigned_tasks and leaves it in
\* W2.assigned_tasks with assigned_worker = W2 and assignment_time the time
\* of the request; a direct assignment to the worker that holds the task
\* changes nothing
C35_Reassignment ==
    [][/\ ToOtherWorker => Reassigned
       /\ ToHolder => UNCHANGED <<orgVars, taskVars, attrVars, workerVars, clockVars>>
    ]_vars

\* The same for tasks listed once by their worker and by no other
C35_SingleHolder ==
    [][/\ (ToOtherWorker /\ Holders(last'.task) = {assigned_worker[last'.task]}
                         /\ Copies(last'.task) = 1) => Reassigned
       /\ ToHolder => UNCHANGED <<orgVars, taskVars, attrVars, workerVars, clockVars>>
    ]_vars

\* A task assigned at an earlier hour has gone from Alice to Bob
C35_Witness ==
    /\ last.op = "direct_assign" /\ last.outcome = "ok" /\ last.name = "Bob"
    /\ workers = <<"Alice", "Bob">>
    /\ assigned_worker[last.task] = 2
    /\ assigned_tasks[1] = <<>> /\ assigned_tasks[2] = <<last.task>>
    /\ task_history[1].assigned = 1
    /\ assignment_time[last.task] = now /\ now > 0



\* A direct-assignment request for a listed task that names no registered
\* worker
UnknownWorkerStep == DirectStep /\ FindWorker(last'.name) = 0

\* C36: a direct assignment that names a worker that does not exist reports
\* not-found and leaves the task's assigned_worker and assignment_time and
\* every worker's assigned_tasks as they were, also when the task had a
\* worker before the request
C36_NotFoundChangesNothing ==
    [][UnknownWorkerStep =>
        /\ last'.outcome = "not_found"
        /\ UNCHANGED <<assigned_worker, assignment_time, assigned_tasks>>
    ]_vars

\* The same for tasks that had no worker before the request
C36_UnassignedUntouched ==
    [][(UnknownWorkerStep /\ assigned_worker[last'.task] = 0) =>
        /\ last'.outcome = "not_found"
        /\ UNCHANGED <<assigned_worker, assignment_time, assigned_tasks>>
    ]_vars

\* The request is answered not-found also for a task that had a worker
C36_NotFoundReported ==
    [][UnknownWorkerStep => last'.outcome = "not_found"]_vars



\* ------------------------------------------------------------ the three records of a completion
\* How many times the workers' completed_tasks lists hold t, all together
CompletedCopies(t) ==
    SumOver([w \in WorkerIds |-> Count(t, worker_completed[w])], Cardinality(WorkerIds))

\* C37: for every registered task these three say the same: the task is in
\* Organization.completed_tasks; its status is "completed"; it is in the
\* completed_tasks of exactly one worker, once
C37_CompletionRecordsAgree ==
    \A t \in registered :
        /\ In(t, completed_tasks) <=> status[t] = "completed"
        /\ status[t] = "completed" <=> CompletedCopies(t) = 1

\* The same while worker names are unique
C37_UniqueNames == UniqueNames => C37_CompletionRecordsAgree

\* The agreement of status and the workers' lists alone
C37_StatusAndWorker ==
    \A t \in registered : status[t] = "completed" <=> CompletedCopies(t) = 1

\* No task is more than once in the workers' completed_tasks
C37_AtMostOnce == \A t \in registered : CompletedCopies(t) <= 1



\* ------------------------------------------------------------ one worker per new task
\* C38: assign_new_task gives the new task to at most one worker, also when
\* several registered workers carry the name on the response's last line
C38_AtMostOneWorker ==
    last.op = "assign_new" =>
        /\ Cardinality(Holders(last.task)) <= 1
        /\ Copies(last.task) <= 1

\* The same while worker names are unique
C38_UniqueNames == UniqueNames => C38_AtMostOneWorker



\* ------------------------------------------------------------ progress
\* C39: when every task without worker is eventually named for a registered
\* worker by a successful planning round, and every assigned task is
\* eventually passed to handle_task_completion, every registered task
\* eventually has status "completed" and Organization.tasks is eventually
\* empty
C39_EveryTaskCompleted ==
    /\ \A t \in TaskIds : [](t \in registered => <>(status[t] = "completed"))
    /\ []<>(tasks = <<>>)

\* A registered task is not for ever such that every round raises
C39_RoundsNotBarred == [](PromptRaises => <>(~PromptRaises))

\* The same in the runs in which no round is barred for ever by a
\* dependency that has left Organization.tasks
C39_UnlessRoundsBarred == C39_RoundsNotBarred => C39_EveryTaskCompleted


====
